---- MODULE Spec2Model ----
(***************************************************************************)
(* Course recommendation engine of the e-learning backend                  *)
(* (src/src/services/recommendationService.js) together with the cache     *)
(* wrapper it runs under (src/src/services/cacheService.js).               *)
(*                                                                         *)
(* Numbers: every score is an exact rational held as an integer number of  *)
(* 1/UNIT; the scores handed back to the caller are integer hundredths     *)
(* (Math.round(score * 100) / 100).                                        *)
(* Identifiers: an ObjectId is <<"oid", n>>, the hex string of the same id *)
(* is <<"str", n>>; the two are different values, as they are for          *)
(* Array.prototype.includes.                                               *)
(***************************************************************************)
EXTENDS Integers, Sequences, FiniteSets, TLC

\* ------------------------------------------------------------------ bounds
\* Documents a snapshot holds beyond the fixture, and requests per behaviour.
MaxRecords == 1
MaxRequests == 2
\* Store-writing requests (enrolments, lesson completions, course deletions)
\* per behaviour, where the behaviour has any.
MaxWrites == 1
\* Enrollment documents in the snapshots that vary the enrollments.
MaxEnrollments == 3

\* ----------------------------------------------------------------- fixture
\* Three users and three courses with the attributes given below; the ids
\* GhostUser and GhostCourse are well formed and in no collection.
Users == {1, 2, 3}
Courses == {1, 2, 3}
GhostUser == Cardinality(Users) + 1
GhostCourse == Cardinality(Courses) + 1
UserIds == Users \cup {GhostUser}
CourseIds == Courses \cup {GhostCourse}
\* The valid limits the callers pass.
Limits == {1, 2}

\* ------------------------------------------------------- numeric helpers
Min(a, b) == IF a < b THEN a ELSE b

RECURSIVE Gcd(_, _)
Gcd(a, b) == IF b = 0 THEN a ELSE Gcd(b, a % b)

RECURSIVE LcmUpTo(_)
LcmUpTo(n) == IF n <= 1 THEN 1 ELSE (LcmUpTo(n - 1) * n) \div Gcd(LcmUpTo(n - 1), n)

\* JavaScript division of non-negative numbers: x / 0 is Infinity or NaN,
\* held as the one value NotFinite.
NotFinite == 0 - 1
Finite(x) == x # NotFinite
JsDiv(x, n) == IF n = 0 \/ ~Finite(x) THEN NotFinite ELSE x \div n

\* One score unit is 1/UNIT: fine enough for every quotient the service forms
\* (tenths, hundredths, the four weights, /similarUserIds.length, /sources).
UNIT == 120000 * LcmUpTo(Cardinality(Users))

\* ------------------------------------------------------------ identifiers
OID(n) == <<"oid", n>>
toString(id) == <<"str", id[2]>>
ObjectId(id) == <<"oid", id[2]>>
Includes(arr, v) == v \in arr

\* --------------------------------------------------------- sequence tools
Take(s, n) == SubSeq(s, 1, Min(n, Len(s)))
Range(s) == {s[i] : i \in DOMAIN s}

\* The slice(0, limit) of line 86: a negative end counts from the end.
Slice(list, end) ==
  IF end < 0 THEN SubSeq(list, 1, Len(list) + end) ELSE Take(list, end)

RECURSIVE MongoSort(_)
\* { $sort: { <key>: -1 } } over documents carrying their key in .score: every
\* order that is descending by key; the order of equal keys is not defined.
MongoSort(S) ==
  IF S = {} THEN {<<>>}
  ELSE LET top == {x \in S : \A y \in S : x.score >= y.score}
       IN UNION {{<<x>> \o rest : rest \in MongoSort(S \ {x})} : x \in top}

RECURSIVE KSubsets(_, _)
KSubsets(S, k) ==
  IF k = 0 \/ S = {} THEN {{}}
  ELSE LET x == CHOOSE y \in S : TRUE
       IN KSubsets(S \ {x}, k) \cup {T \cup {x} : T \in KSubsets(S \ {x}, k - 1)}

\* ------------------------------------------------------------ the stores
\* User collection: every id of Users is a user document.
UserRole(u) == IF u = 2 THEN "instructor" ELSE "student"

\* StudentProfile collection: user 1 has a profile with one interest, user 3
\* has a profile without interests, user 2 (an instructor) has none.
HasProfile(u) == u \in {1, 3}
ProfileInterests(u) == IF u = 1 THEN {"Web Development"} ELSE {}

\* Category collection: name -> _id.
CategoryNames == {"Web Development", "Data Science"}
CategoryId(name) == IF name = "Web Development" THEN 1 ELSE 2

\* Course collection as first loaded: courses 1 and 2 are twins.
Catalog ==
  [c \in Courses |->
     [category |-> IF c <= 2 THEN 1 ELSE 2,
      level |-> "beginner",
      tags |-> IF c <= 2 THEN {"js"} ELSE {"py"},
      rating |-> IF c <= 2 THEN 4 ELSE 5,
      totalEnrollments |-> IF c <= 2 THEN 10 ELSE 20,
      totalReviews |-> IF c <= 2 THEN 0 ELSE 10,
      isPublished |-> TRUE,
      isDeleted |-> FALSE]]

\* ProgressTracking documents that every snapshot holds: user 3 has
\* completed courses 1 and 2.
SeedProgress == {<<3, 1>>, <<3, 2>>}
ProgressCells == (Users \X Courses) \ SeedProgress

\* ------------------------------------------------------ JavaScript values
\* A part (and an argument of a call) is a string, a number, null or
\* undefined.
StrPart(x) == [kind |-> "string", str |-> x, num |-> 0]
NumPart(n) == [kind |-> "number", str |-> "", num |-> n]
Null == [kind |-> "null", str |-> "", num |-> 0]
Undefined == [kind |-> "undefined", str |-> "", num |-> 0]
Truthy(part) ==
  IF part.kind = "string" THEN part.str # ""
  ELSE IF part.kind = "number" THEN part.num # 0
  ELSE FALSE

\* The default parameters: limit = 10 and limit = 5.
DefaultLimit == 10
MoreLikeThisDefault == 5
DefaultParam(arg, dflt) == IF arg.kind = "undefined" THEN NumPart(dflt) ELSE arg

\* Number(x) of a string: the model's strings are "" and the decimal numerals
\* of NumeralRange; every other string is NaN.
NumeralRange == 0..20
IsNumeral(str) == \E n \in NumeralRange : ToString(n) = str
NumeralValue(str) == CHOOSE n \in NumeralRange : ToString(n) = str

\* ToIntegerOrInfinity(x), as Array.prototype.slice applies it to its end
\* argument: NaN, null and "" are 0.
ToInteger(arg) ==
  IF arg.kind = "number" THEN arg.num
  ELSE IF arg.kind = "string" /\ IsNumeral(arg.str) THEN NumeralValue(arg.str)
  ELSE 0

\* The { $limit: x } stage: the server rejects a pipeline whose limit is not
\* a positive number.
LimitRejected(arg) == arg.kind # "number" \/ arg.num < 1

VARIABLES
  courses,      \* Course collection: id -> document
  progress,     \* ProgressTracking: <<student, course>> -> "none"|"inprog"|"done"
  enrollments,  \* Enrollment collection: set of documents
  cache,        \* redis: key -> stored list
  pc,           \* position of the request in flight
  rq,           \* locals of the request in flight
  served,       \* number of requests started
  writes,       \* number of store-writing requests handled
  peer          \* a second recommendation request, in flight beside rq

vars == <<courses, progress, enrollments, cache, pc, rq, served, writes, peer>>

NoRequest ==
  [op |-> "none", learner |-> 0, limit |-> 0, limitArg |-> Undefined, key |-> <<>>,
   completed |-> {}, inProgress |-> {}, interests |-> {},
   similarUsers |-> <<>>, similarCourses |-> <<>>, popular |-> <<>>,
   collab |-> <<>>, trending |-> <<>>, recommendations |-> <<>>,
   aggregated |-> <<>>,
   result |-> <<>>, status |-> "none", fromCache |-> FALSE,
   failedAt |-> "none", queries |-> {}]

\* The second request before it starts.
NoPeer ==
  [pc |-> "idle", learner |-> 0, limit |-> 0, key |-> <<>>, result |-> <<>>,
   fromCache |-> FALSE]

\* ------------------------------------------------ cacheService (key, JSON)
\* generateKey(parts): `cache:${parts.filter(Boolean).join(':')}`; the key is
\* held as the sequence of the parts that survive filter(Boolean).
PartText(part) == IF part.kind = "string" THEN part.str ELSE ToString(part.num)

generateKey(parts) ==
  LET kept == SelectSeq(parts, Truthy)
  IN <<"cache">> \o [i \in DOMAIN kept |-> PartText(kept[i])]

\* JSON.stringify then JSON.parse of a returned list: an ObjectId comes back
\* as its hex string, numbers come back unchanged.
JsonRoundTrip(list) ==
  [i \in DOMAIN list |-> [list[i] EXCEPT !._id = toString(list[i]._id)]]

\* ------------------------------------------------------ findSimilarUsers
\* $match + $group of the pipeline: per other student, the number of completed
\* ProgressTracking documents whose course is in completedCourseIds.
CommonCourses(s, completedCourseIds) ==
  Cardinality({c \in CourseIds :
                 progress[<<s, c>>] = "done" /\ OID(c) \in completedCourseIds})

\* The second $match with the threshold 1 in place of Math.min(3, length).
SimilarUserDocsAnyOverlap(userId, completedCourseIds) ==
  {[userId |-> s,
    commonCourses |-> CommonCourses(s, completedCourseIds),
    score |-> (CommonCourses(s, completedCourseIds) * UNIT)
                 \div Cardinality(completedCourseIds)] :
     s \in {t \in Users :
              /\ t # userId
              /\ CommonCourses(t, completedCourseIds) >= 1}}

SimilarUserDocs(userId, completedCourseIds) ==
  {[userId |-> s,
    commonCourses |-> CommonCourses(s, completedCourseIds),
    score |-> (CommonCourses(s, completedCourseIds) * UNIT)
                 \div Cardinality(completedCourseIds)] :
     s \in {t \in Users :
              /\ t # userId
              /\ CommonCourses(t, completedCourseIds) >= 1
              /\ CommonCourses(t, completedCourseIds)
                   >= Min(3, Cardinality(completedCourseIds))}}

SimilarUsersLimit == 10

findSimilarUsers(userId, completedCourseIds) ==
  IF Cardinality(completedCourseIds) = 0 THEN {<<>>}
  ELSE {Take(s, SimilarUsersLimit) :
          s \in MongoSort(SimilarUserDocs(userId, completedCourseIds))}

\* -------------------------------------------- getCoursesFromSimilarUsers
Visible(c) == c \in DOMAIN courses /\ courses[c].isPublished /\ ~courses[c].isDeleted

CollabCount(c, similarUserIds) ==
  Cardinality({s \in similarUserIds : progress[<<s, c>>] = "done"})

CollabLimit == 20

\* The score without its second factor: the share of the similar learners.
getCoursesFromSimilarUsersShareOnly(similarUsers, excludeIds, inProgressIds) ==
  LET excludeAll == {toString(id) : id \in excludeIds}
                      \cup {toString(id) : id \in inProgressIds}
      similarUserIds == {similarUsers[i].userId : i \in DOMAIN similarUsers}
      n == Len(similarUsers)
      docs == {[_id |-> OID(c),
                score |-> (CollabCount(c, similarUserIds) * UNIT) \div n] :
                 c \in {d \in CourseIds :
                          /\ OID(d) \notin {ObjectId(id) : id \in excludeAll}
                          /\ CollabCount(d, similarUserIds) >= 1
                          /\ Visible(d)}}
  IN {Take(s, CollabLimit) : s \in MongoSort(docs)}

getCoursesFromSimilarUsers(similarUsers, excludeIds, inProgressIds) ==
  LET excludeAll == {toString(id) : id \in excludeIds}
                      \cup {toString(id) : id \in inProgressIds}
      similarUserIds == {similarUsers[i].userId : i \in DOMAIN similarUsers}
      n == Len(similarUsers)
      docs == {[_id |-> OID(c),
                score |-> (CollabCount(c, similarUserIds)
                             * CollabCount(c, similarUserIds) * UNIT) \div (n * 10)] :
                 c \in {d \in CourseIds :
                          /\ OID(d) \notin {ObjectId(id) : id \in excludeAll}
                          /\ CollabCount(d, similarUserIds) >= 1
                          /\ Visible(d)}}
  IN {Take(s, CollabLimit) : s \in MongoSort(docs)}

\* ---------------------------------------------------- findSimilarCourses
\* A shared tag that counts 1, as in getMoreLikeThis.
ContentScoreTagOne(c, categories, levels, tags) ==
  (IF courses[c].category \in categories THEN 3 * UNIT ELSE 0)
  + (IF courses[c].level \in levels THEN UNIT ELSE 0)
  + Cardinality(courses[c].tags \cap tags) * UNIT
  + (courses[c].rating * UNIT) \div 10

ContentScore(c, categories, levels, tags) ==
  (IF courses[c].category \in categories THEN 3 * UNIT ELSE 0)
  + (IF courses[c].level \in levels THEN UNIT ELSE 0)
  + (Cardinality(courses[c].tags \cap tags) * UNIT) \div 2
  + (courses[c].rating * UNIT) \div 10

ContentLimit == 20

findSimilarCourses(courseIds, excludeIds) ==
  IF Cardinality(courseIds) = 0 THEN {<<>>}
  ELSE
    LET sourceCourses == {c \in DOMAIN courses : OID(c) \in courseIds}
        categories == {courses[c].category : c \in sourceCourses}
        levels == {courses[c].level : c \in sourceCourses}
        tags == UNION {courses[c].tags : c \in sourceCourses}
        matched == {c \in DOMAIN courses :
                      /\ OID(c) \notin {ObjectId(id) : id \in courseIds \cup excludeIds}
                      /\ courses[c].isPublished
                      /\ ~courses[c].isDeleted
                      /\ \/ courses[c].category \in categories
                         \/ courses[c].level \in levels
                         \/ courses[c].tags \cap tags # {}}
        docs == {[_id |-> OID(c), score |-> ContentScore(c, categories, levels, tags)] :
                   c \in {d \in matched : ContentScore(d, categories, levels, tags) > 0}}
    IN {Take(s, ContentLimit) : s \in MongoSort(docs)}

\* ------------------------------------------ getPopularCoursesByCategories
Popularity(c) ==
  (courses[c].totalEnrollments * UNIT) \div 2
  + courses[c].rating * 10 * UNIT
  + (courses[c].totalReviews * UNIT) \div 10

Normalize(list) == [i \in DOMAIN list |-> [list[i] EXCEPT !.score = @ \div 100]]

\* The $match without `isDeleted: { $ne: true }`.
getPopularCoursesByCategoriesWithDeleted(categories, limit) ==
  IF Cardinality(categories) = 0 THEN {<<>>}
  ELSE
    LET categoryIds == {CategoryId(name) : name \in categories \cap CategoryNames}
        docs == {[_id |-> OID(c), score |-> Popularity(c)] :
                   c \in {d \in DOMAIN courses :
                            /\ courses[d].category \in categoryIds
                            /\ courses[d].isPublished}}
    IN {Normalize(Take(s, limit)) : s \in MongoSort(docs)}

getPopularCoursesByCategories(categories, limit) ==
  IF Cardinality(categories) = 0 THEN {<<>>}
  ELSE
    LET categoryIds == {CategoryId(name) : name \in categories \cap CategoryNames}
        docs == {[_id |-> OID(c), score |-> Popularity(c)] :
                   c \in {d \in DOMAIN courses :
                            /\ courses[d].category \in categoryIds
                            /\ courses[d].isPublished
                            /\ ~courses[d].isDeleted}}
    IN {Normalize(Take(s, limit)) : s \in MongoSort(docs)}

\* ---------------------------------------------------- getTrendingCourses
\* The $match without `isActive: true`: revoked enrollments count too.
RecentEnrollmentsWithRevoked(c) ==
  enrollments[[course |-> c, recent |-> TRUE, isActive |-> TRUE]]
    + enrollments[[course |-> c, recent |-> TRUE, isActive |-> FALSE]]

RecentEnrollments(c) ==
  enrollments[[course |-> c, recent |-> TRUE, isActive |-> TRUE]]

TrendScore(c) == RecentEnrollments(c) * 2 * UNIT + courses[c].rating * 5 * UNIT

\* The pipeline without its $group by course: one row per recent active
\* Enrollment document, each with a count of 1.
RECURSIVE PerDocument(_)
PerDocument(rows) ==
  IF rows = <<>> THEN <<>>
  ELSE [i \in 1..RecentEnrollments(Head(rows)._id[2]) |-> Head(rows)]
         \o PerDocument(Tail(rows))

getTrendingCoursesUngrouped(limit) ==
  LET docs == {[_id |-> OID(c), score |-> 2 * UNIT + courses[c].rating * 5 * UNIT] :
                 c \in {d \in Courses : RecentEnrollments(d) >= 1 /\ Visible(d)}}
  IN {Normalize(Take(PerDocument(s), limit)) : s \in MongoSort(docs)}

\* The pipeline started from the catalog: a course without a recent active
\* enrollment is scored too, with a count of 0.
getTrendingCoursesWholeCatalog(limit) ==
  LET docs == {[_id |-> OID(c), score |-> TrendScore(c)] :
                 c \in {d \in Courses : Visible(d)}}
  IN {Normalize(Take(s, limit)) : s \in MongoSort(docs)}

getTrendingCourses(limit) ==
  LET docs == {[_id |-> OID(c), score |-> TrendScore(c)] :
                 c \in {d \in Courses : RecentEnrollments(d) >= 1 /\ Visible(d)}}
  IN {Normalize(Take(s, limit)) : s \in MongoSort(docs)}

\* ----------------------------------------------- aggregateRecommendations
Weighted(list, tenths) ==
  [i \in DOMAIN list |-> [list[i] EXCEPT !.score = (@ * tenths) \div 10]]

\* Variants of aggregateRecommendations with a slip in them.
\* No grouping by id: every candidate becomes a row of its own.
aggregateNoGrouping(recommendations) ==
  [i \in DOMAIN recommendations |->
     [_id |-> recommendations[i]._id, score |-> recommendations[i].score,
      sources |-> 1]]

\* The keys of `aggregated` in insertion order: first occurrence of each id.
RECURSIVE FirstSeen(_)
FirstSeen(recs) ==
  IF recs = <<>> THEN <<>>
  ELSE LET init == FirstSeen(SubSeq(recs, 1, Len(recs) - 1))
           id == toString(recs[Len(recs)]._id)
       IN IF id \in Range(init) THEN init ELSE Append(init, id)

RECURSIVE SumScores(_, _)
SumScores(recs, id) ==
  IF recs = <<>> THEN 0
  ELSE SumScores(Tail(recs), id)
         + (IF toString(Head(recs)._id) = id THEN Head(recs).score ELSE 0)

Sources(recs, id) ==
  Cardinality({i \in DOMAIN recs : toString(recs[i]._id) = id})

FirstRec(recs, id) ==
  recs[CHOOSE i \in DOMAIN recs :
         /\ toString(recs[i]._id) = id
         /\ \A j \in 1..(i - 1) : toString(recs[j]._id) # id]

\* The first candidate of an id only creates the entry: it is not counted.
aggregateCountAfterFirst(recommendations) ==
  LET keys == FirstSeen(recommendations)
  IN [i \in DOMAIN keys |->
        [_id |-> FirstRec(recommendations, keys[i])._id,
         score |-> JsDiv(SumScores(recommendations, keys[i])
                           - FirstRec(recommendations, keys[i]).score,
                         Sources(recommendations, keys[i]) - 1),
         sources |-> Sources(recommendations, keys[i]) - 1]]

\* The mean is taken over all four sources.
aggregateOverFour(recommendations) ==
  LET keys == FirstSeen(recommendations)
  IN [i \in DOMAIN keys |->
        [_id |-> FirstRec(recommendations, keys[i])._id,
         score |-> JsDiv(SumScores(recommendations, keys[i]), 4),
         sources |-> Sources(recommendations, keys[i])]]

aggregateRecommendations(recommendations) ==
  LET keys == FirstSeen(recommendations)
  IN [i \in DOMAIN keys |->
        [_id |-> FirstRec(recommendations, keys[i])._id,
         score |-> JsDiv(SumScores(recommendations, keys[i]),
                         Sources(recommendations, keys[i])),
         sources |-> Sources(recommendations, keys[i])]]

\* ----------------------------- the tail of getPersonalizedRecommendations
\* The comparator the other way round: (a, b) => a.score - b.score.
RECURSIVE SortByScoreAsc(_)
SortByScoreAsc(list) ==
  IF list = <<>> THEN <<>>
  ELSE LET init == SortByScoreAsc(SubSeq(list, 1, Len(list) - 1))
           x == list[Len(list)]
           k == Cardinality({i \in DOMAIN init : init[i].score <= x.score})
       IN SubSeq(init, 1, k) \o <<x>> \o SubSeq(init, k + 1, Len(init))

\* Array.prototype.sort((a, b) => b.score - a.score): stable, descending.
RECURSIVE SortByScoreDesc(_)
SortByScoreDesc(list) ==
  IF list = <<>> THEN <<>>
  ELSE LET init == SortByScoreDesc(SubSeq(list, 1, Len(list) - 1))
           x == list[Len(list)]
           k == Cardinality({i \in DOMAIN init : init[i].score >= x.score})
       IN SubSeq(init, 1, k) \o <<x>> \o SubSeq(init, k + 1, Len(init))

\* Math.round(score * 100) / 100, as a number of hundredths.
Round2(score) ==
  IF Finite(score) THEN (score * 100 + UNIT \div 2) \div UNIT ELSE NotFinite

FilterOwned(aggregated, completedCourseIds, inProgressIds) ==
  SelectSeq(aggregated,
            LAMBDA c : /\ ~Includes(completedCourseIds, toString(c._id))
                       /\ ~Includes(inProgressIds, toString(c._id)))

\* Without .slice(0, limit).
SortAndLimitNoSlice(filtered, limit) ==
  [i \in DOMAIN filtered |->
     [SortByScoreDesc(filtered)[i] EXCEPT !.score = Round2(@)]]

SortAndLimit(filtered, limit) ==
  LET top == Slice(SortByScoreDesc(filtered), limit)
  IN [i \in DOMAIN top |-> [top[i] EXCEPT !.score = Round2(@)]]

\* Enrollment documents, projected on the fields the engine reads: the course,
\* whether enrolledAt lies within the last 30 days, and isActive. The
\* collection is a bag of such documents: kind -> number of documents.
EnrollKinds == [course : Courses, recent : BOOLEAN, isActive : BOOLEAN]

RECURSIVE BagsOfSize(_, _)
BagsOfSize(K, n) ==
  IF K = {} THEN (IF n = 0 THEN {<<>>} ELSE {})
  ELSE LET k == CHOOSE x \in K : TRUE
       IN UNION {{(k :> m) @@ b : b \in BagsOfSize(K \ {k}, n - m)} : m \in 0..n}

Init ==
  /\ courses = Catalog
  /\ \E n \in 0..MaxRecords :
       \E P \in KSubsets(ProgressCells, n) :
         \E st \in [P -> {"inprog", "done"}] :
           /\ Cardinality(P) = n
           /\ progress = [cell \in Users \X CourseIds |->
                            IF cell \in SeedProgress THEN "done"
                            ELSE IF cell \in P THEN st[cell] ELSE "none"]
           /\ \E m \in 0..(MaxRecords - n) :
                enrollments \in BagsOfSize(EnrollKinds, m)
  /\ cache = <<>>
  /\ pc = "idle"
  /\ rq = NoRequest
  /\ served = 0
  /\ writes = 0
  /\ peer = NoPeer

\* ------------------------------------------------------ getMoreLikeThis
\* A level match that counts 1, as in findSimilarCourses.
SimilarityLevelOne(c, course) ==
  (IF courses[c].level = course.level THEN UNIT ELSE 0)
  + Cardinality(courses[c].tags \cap course.tags) * UNIT
  + (courses[c].rating * UNIT) \div 2

Similarity(c, course) ==
  (IF courses[c].level = course.level THEN 2 * UNIT ELSE 0)
  + Cardinality(courses[c].tags \cap course.tags) * UNIT
  + (courses[c].rating * UNIT) \div 2

getMoreLikeThis(courseId, limit) ==
  IF courseId \notin DOMAIN courses THEN {<<>>}
  ELSE
    LET course == courses[courseId]
        docs == {[_id |-> OID(c), score |-> Similarity(c, course)] :
                   c \in {d \in DOMAIN courses :
                            /\ d # courseId
                            /\ courses[d].category = course.category
                            /\ courses[d].isPublished
                            /\ ~courses[d].isDeleted}}
    IN {Take(s, limit) : s \in MongoSort(docs)}

\* ---------------------------------------------------------------- actions
RecommendationKey(userId, limit) ==
  generateKey(<<StrPart("recommendations"), StrPart(ToString(userId)), limit>>)

\* getPersonalizedRecommendations up to the end of cacheService.get: a readable
\* cache that holds the key answers the request; otherwise the callback runs.
Remember(userId, limitArg) ==
  /\ pc = "idle"
  /\ served < MaxRequests
  /\ served' = served + 1
  /\ LET limit == DefaultParam(limitArg, DefaultLimit)
         key == RecommendationKey(userId, limit)
         call == [NoRequest EXCEPT !.op = "personalized", !.learner = userId,
                                   !.limit = ToInteger(limit),
                                   !.limitArg = limit, !.key = key]
     IN \E readable \in BOOLEAN :
          IF readable /\ key \in DOMAIN cache
          THEN /\ rq' = [call EXCEPT !.result = cache[key], !.status = "ok",
                                     !.fromCache = TRUE]
               /\ pc' = "done"
          ELSE /\ rq' = call
               /\ pc' = "load"
  /\ UNCHANGED <<courses, progress, enrollments, cache, writes, peer>>

\* Without the `if (!user) return []` of line 16.
UserExistsAlways(userId) == TRUE

\* User.findById(userId) is not null.
UserExists(userId) == userId \in Users

\* ProgressTracking.find({ student, isCompleted }): the courses of the hits.
ProgressIds(userId, status) ==
  {OID(c) : c \in {d \in CourseIds : <<userId, d>> \in DOMAIN progress
                                        /\ progress[<<userId, d>>] = status}}

\* populate('course') leaves null where the course document does not exist:
\* p.course._id of lines 24 and 32 then throws a TypeError.
HasDanglingProgress(userId) ==
  \E c \in CourseIds :
    /\ OID(c) \in ProgressIds(userId, "done") \cup ProgressIds(userId, "inprog")
    /\ c \notin DOMAIN courses

\* Lines 15-40: the user, the two progress lists, the interests.
LoadUser ==
  /\ pc = "load"
  /\ IF ~UserExists(rq.learner)
     THEN /\ rq' = [rq EXCEPT !.queries = {"User.findById"}]
          /\ pc' = "store"
     ELSE IF HasDanglingProgress(rq.learner)
     THEN /\ rq' = [rq EXCEPT !.status = "error", !.failedAt = "TypeError",
                              !.queries = {"User.findById", "ProgressTracking.find"}]
          /\ pc' = "done"
     ELSE /\ rq' = [rq EXCEPT
                      !.completed = ProgressIds(rq.learner, "done"),
                      !.inProgress = ProgressIds(rq.learner, "inprog"),
                      !.interests =
                         IF UserRole(rq.learner) = "student"
                         THEN (IF HasProfile(rq.learner)
                               THEN ProfileInterests(rq.learner) ELSE {})
                         ELSE {},
                      !.queries =
                         {"User.findById", "ProgressTracking.find"}
                           \cup (IF UserRole(rq.learner) = "student"
                                 THEN {"StudentProfile.findOne"} ELSE {})]
          /\ pc' = "simUsers"
  /\ UNCHANGED <<courses, progress, enrollments, cache, served, writes, peer>>

FindSimilarUsers ==
  /\ pc = "simUsers"
  /\ \E s \in findSimilarUsers(rq.learner, rq.completed) :
       rq' = [rq EXCEPT !.similarUsers = s,
                        !.queries = @ \cup (IF rq.completed = {} THEN {}
                                            ELSE {"findSimilarUsers"})]
  /\ pc' = "simCourses"
  /\ UNCHANGED <<courses, progress, enrollments, cache, served, writes, peer>>

FindSimilarCourses ==
  /\ pc = "simCourses"
  /\ \E s \in findSimilarCourses(rq.completed, rq.inProgress) :
       rq' = [rq EXCEPT !.similarCourses = s,
                        !.queries = @ \cup (IF rq.completed = {} THEN {}
                                            ELSE {"findSimilarCourses"})]
  /\ pc' = "popular"
  /\ UNCHANGED <<courses, progress, enrollments, cache, served, writes, peer>>

\* The request rejects at `at`: its locals are gone, the caller gets the error.
Rejection(at) ==
  [NoRequest EXCEPT !.op = rq.op, !.learner = rq.learner,
                    !.limit = rq.limit, !.limitArg = rq.limitArg,
                    !.key = rq.key, !.queries = rq.queries,
                    !.status = "error", !.failedAt = at]

GetPopularCoursesByCategories ==
  /\ pc = "popular"
  /\ IF rq.interests # {} /\ LimitRejected(rq.limitArg)
     THEN /\ rq' = [Rejection("$limit") EXCEPT
                      !.queries = @ \cup {"getPopularCoursesByCategories"}]
          /\ pc' = "done"
     ELSE /\ \E s \in getPopularCoursesByCategories(rq.interests, rq.limit) :
               rq' = [rq EXCEPT !.popular = s,
                                !.queries = @ \cup (IF rq.interests = {} THEN {}
                                                    ELSE {"getPopularCoursesByCategories"})]
          /\ pc' = "collab"
  /\ UNCHANGED <<courses, progress, enrollments, cache, served, writes, peer>>

GetCoursesFromSimilarUsers ==
  /\ pc = "collab"
  /\ IF Len(rq.similarUsers) > 0
     THEN \E s \in getCoursesFromSimilarUsers(rq.similarUsers, rq.completed,
                                              rq.inProgress) :
            rq' = [rq EXCEPT !.collab = s,
                             !.queries = @ \cup {"getCoursesFromSimilarUsers"}]
     ELSE rq' = rq
  /\ pc' = "trending"
  /\ UNCHANGED <<courses, progress, enrollments, cache, served, writes, peer>>

\* getTrendingCourses called without await: the code goes on while the
\* query is still running.
GetTrendingCoursesNotAwaited ==
  /\ pc = "trending"
  /\ rq' = rq
  /\ pc' = "aggregate"
  /\ UNCHANGED <<courses, progress, enrollments, cache, served, writes, peer>>

GetTrendingCourses ==
  /\ pc = "trending"
  /\ IF LimitRejected(rq.limitArg)
     THEN /\ rq' = [Rejection("$limit") EXCEPT
                      !.queries = @ \cup {"getTrendingCourses"}]
          /\ pc' = "done"
     ELSE /\ \E s \in getTrendingCourses(rq.limit) :
               rq' = [rq EXCEPT !.trending = s,
                                !.queries = @ \cup {"getTrendingCourses"}]
          /\ pc' = "aggregate"
  /\ UNCHANGED <<courses, progress, enrollments, cache, served, writes, peer>>

\* Lines 51-72: the four pushes, each list times its weight.
Combined(r) ==
  (IF Len(r.similarUsers) > 0 THEN Weighted(r.collab, 4) ELSE <<>>)
  \o (IF Len(r.similarCourses) > 0 THEN Weighted(r.similarCourses, 3) ELSE <<>>)
  \o (IF Len(r.popular) > 0 THEN Weighted(r.popular, 2) ELSE <<>>)
  \o Weighted(r.trending, 1)

\* Lines 74-90: aggregate, filter, sort, slice, round.
Personalized(r) ==
  SortAndLimit(FilterOwned(aggregateRecommendations(Combined(r)),
                           r.completed, r.inProgress),
               r.limit)

Aggregate ==
  /\ pc = "aggregate"
  /\ rq' = [rq EXCEPT !.recommendations = Combined(rq),
                        !.aggregated = aggregateRecommendations(Combined(rq)),
                        !.result = Personalized(rq)]
  /\ pc' = "store"
  /\ UNCHANGED <<courses, progress, enrollments, cache, served, writes, peer>>

\* A set without its try/catch: a failed write rejects the request.
CacheSetRethrows ==
  /\ pc = "store"
  /\ \E writable \in BOOLEAN :
       IF writable
       THEN /\ cache' = [k \in DOMAIN cache \cup {rq.key} |->
                           IF k = rq.key THEN JsonRoundTrip(rq.result) ELSE cache[k]]
            /\ rq' = [rq EXCEPT !.status = "ok"]
       ELSE /\ cache' = cache
            /\ rq' = Rejection("cache")
  /\ pc' = "done"
  /\ UNCHANGED <<courses, progress, enrollments, served, writes, peer>>

\* A set that empties the cache first.
CacheSetFlushing ==
  /\ pc = "store"
  /\ cache' = (rq.key :> JsonRoundTrip(rq.result))
  /\ rq' = [rq EXCEPT !.status = "ok"]
  /\ pc' = "done"
  /\ UNCHANGED <<courses, progress, enrollments, served, writes, peer>>

\* cacheService.remember after the callback: set (which never throws), return.
CacheSet ==
  /\ pc = "store"
  /\ \E writable \in BOOLEAN :
       cache' = IF writable
                THEN [k \in DOMAIN cache \cup {rq.key} |->
                        IF k = rq.key THEN JsonRoundTrip(rq.result) ELSE cache[k]]
                ELSE cache
  /\ rq' = [rq EXCEPT !.status = "ok"]
  /\ pc' = "done"
  /\ UNCHANGED <<courses, progress, enrollments, served, writes, peer>>

\* A store call of the current step rejects: nothing catches it before the
\* caller of getPersonalizedRecommendations.
IssuesQuery ==
  \/ pc \in {"load", "trending"}
  \/ pc \in {"simUsers", "simCourses"} /\ rq.completed # {}
  \/ pc = "popular" /\ rq.interests # {}
  \/ pc = "collab" /\ Len(rq.similarUsers) > 0

QueryFails ==
  /\ IssuesQuery
  /\ rq' = Rejection(pc)
  /\ pc' = "done"
  /\ UNCHANGED <<courses, progress, enrollments, cache, served, writes, peer>>

MoreLikeThis(courseId, limitArg) ==
  /\ pc = "idle"
  /\ served < MaxRequests
  /\ served' = served + 1
  /\ LET limit == DefaultParam(limitArg, MoreLikeThisDefault)
         call == [NoRequest EXCEPT
                    !.op = "moreLikeThis", !.learner = courseId,
                    !.limit = ToInteger(limit), !.limitArg = limit,
                    !.queries = {"Course.findById"}
                                  \cup (IF courseId \in DOMAIN courses
                                        THEN {"Course.aggregate"} ELSE {})]
     IN IF courseId \in DOMAIN courses /\ LimitRejected(limit)
        THEN rq' = [call EXCEPT !.status = "error", !.failedAt = "$limit"]
        ELSE \E s \in getMoreLikeThis(courseId, ToInteger(limit)) :
               rq' = [call EXCEPT !.result = s, !.status = "ok"]
  /\ pc' = "done"
  /\ UNCHANGED <<courses, progress, enrollments, cache, writes, peer>>

\* The response has been handed to the caller.
Return ==
  /\ pc = "done"
  /\ rq' = NoRequest
  /\ pc' = "idle"
  /\ UNCHANGED <<courses, progress, enrollments, cache, served, writes, peer>>

Next ==
  \/ \E u \in UserIds, k \in Limits : Remember(u, NumPart(k))
  \/ LoadUser
  \/ FindSimilarUsers
  \/ FindSimilarCourses
  \/ GetPopularCoursesByCategories
  \/ GetCoursesFromSimilarUsers
  \/ GetTrendingCourses
  \/ Aggregate
  \/ CacheSet
  \/ QueryFails
  \/ \E c \in CourseIds, k \in Limits : MoreLikeThis(c, NumPart(k))
  \/ Return

Spec == Init /\ [][Next]_vars

\* ----------------------------------------------- the callback as a whole
\* The user's interests as lines 35-40 read them.
InterestsOf(userId) ==
  IF UserRole(userId) = "student" /\ HasProfile(userId)
  THEN ProfileInterests(userId) ELSE {}

\* Every list the callback of lines 14-91 can return for (userId, limit) from
\* the stores as they are now, when no query fails: no cache involved.
Uncached(userId, limit) ==
  IF ~UserExists(userId) THEN {<<>>}
  ELSE IF HasDanglingProgress(userId) THEN {}
  ELSE
    LET completed == ProgressIds(userId, "done")
        inProgress == ProgressIds(userId, "inprog")
        base == [NoRequest EXCEPT !.learner = userId, !.limit = limit,
                                  !.completed = completed,
                                  !.inProgress = inProgress,
                                  !.interests = InterestsOf(userId)]
    IN UNION {UNION {UNION {UNION {
         {Personalized([base EXCEPT !.similarUsers = su, !.similarCourses = sc,
                                    !.popular = po, !.collab = co,
                                    !.trending = tr]) :
            tr \in getTrendingCourses(limit)} :
            co \in IF Len(su) > 0
                   THEN getCoursesFromSimilarUsers(su, completed, inProgress)
                   ELSE {<<>>}} :
            po \in getPopularCoursesByCategories(InterestsOf(userId), limit)} :
            sc \in findSimilarCourses(completed, inProgress)} :
            su \in findSimilarUsers(userId, completed)}

\* A list as the caller sees it in the response body.
OnTheWire(lists) == {JsonRoundTrip(l) : l \in lists}

\* ------------------------------------------- callers with any limit at all
\* What a caller can pass for limit besides a valid number: nothing, null, 0,
\* a negative number, a string that is no number, a string that is one.
OtherLimits ==
  {Undefined, Null, NumPart(0), NumPart(0 - 1), StrPart("abc"), StrPart("2")}

NextLimits ==
  \/ Next
  \/ \E u \in UserIds, a \in OtherLimits : Remember(u, a)

SpecLimits == Init /\ [][NextLimits]_vars

\* ------------------------------------------------ the writers of the stores
\* The stores with the fixture's documents only.
InitSeed ==
  /\ courses = Catalog
  /\ progress = [cell \in Users \X CourseIds |->
                   IF cell \in SeedProgress THEN "done" ELSE "none"]
  /\ enrollments = [k \in EnrollKinds |-> 0]
  /\ cache = <<>>
  /\ pc = "idle"
  /\ rq = NoRequest
  /\ served = 0
  /\ writes = 0
  /\ peer = NoPeer

\* enrollmentController.enrollStudent for a student who has no record of the
\* course yet: the Enrollment document, the course's counter, the
\* ProgressTracking document.
EnrollStudent(u, c) ==
  /\ pc = "idle"
  /\ writes < MaxWrites
  /\ c \in DOMAIN courses
  /\ courses[c].isPublished /\ ~courses[c].isDeleted
  /\ progress[<<u, c>>] = "none"
  /\ LET kind == [course |-> c, recent |-> TRUE, isActive |-> TRUE]
     IN enrollments' = [enrollments EXCEPT ![kind] = @ + 1]
  /\ courses' = [courses EXCEPT ![c].totalEnrollments = @ + 1]
  /\ progress' = [progress EXCEPT ![<<u, c>>] = "inprog"]
  /\ writes' = writes + 1
  /\ UNCHANGED <<cache, pc, rq, served, peer>>

\* progressController.markLessonComplete(courseId from the route): creates the
\* ProgressTracking document when the student has none, whether or not
\* courseId names a course; `last` says that the percentage reaches 100. For
\* an id that names no course the handler throws at the certificate, after
\* the create and before the save.
MarkLessonComplete(u, courseId, last) ==
  /\ pc = "idle"
  /\ writes < MaxWrites
  /\ progress[<<u, courseId>>] # "done"
  /\ progress' = [progress EXCEPT ![<<u, courseId>>] =
                    IF last /\ courseId \in DOMAIN courses THEN "done" ELSE "inprog"]
  /\ writes' = writes + 1
  /\ UNCHANGED <<courses, enrollments, cache, pc, rq, served, peer>>

\* courseController.deleteCourse = factory.deleteOne(Course): a soft delete.
DeleteCourse(c) ==
  /\ pc = "idle"
  /\ writes < MaxWrites
  /\ c \in DOMAIN courses
  /\ ~courses[c].isDeleted
  /\ courses' = [courses EXCEPT ![c].isDeleted = TRUE]
  /\ writes' = writes + 1
  /\ UNCHANGED <<progress, enrollments, cache, pc, rq, served, peer>>

NextWrites ==
  \/ Next
  \/ \E u \in Users, c \in Courses : EnrollStudent(u, c)
  \/ \E u \in Users, c \in CourseIds, last \in BOOLEAN : MarkLessonComplete(u, c, last)
  \/ \E c \in Courses : DeleteCourse(c)

SpecWrites == InitSeed /\ [][NextWrites]_vars

\* ------------------------------------------- a second request, concurrent
\* A second call of getPersonalizedRecommendations with the learner and the
\* limit of the call in flight, started while that call is in flight. Its
\* steps are remember's: the cache read, the callback, the cache write. The
\* callback reads stores that nobody writes here and touches nothing but its
\* own locals, so it is one step.
PeerRemember ==
  /\ pc \notin {"idle"}
  /\ rq.op = "personalized"
  /\ peer.pc = "idle"
  /\ served < MaxRequests
  /\ served' = served + 1
  /\ LET call == [NoPeer EXCEPT !.learner = rq.learner, !.limit = rq.limit,
                                !.key = RecommendationKey(rq.learner, rq.limitArg)]
     IN \E readable \in BOOLEAN :
          IF readable /\ call.key \in DOMAIN cache
          THEN peer' = [call EXCEPT !.pc = "done", !.result = cache[call.key],
                                    !.fromCache = TRUE]
          ELSE peer' = [call EXCEPT !.pc = "compute"]
  /\ UNCHANGED <<courses, progress, enrollments, cache, pc, rq, writes>>

PeerCompute ==
  /\ peer.pc = "compute"
  /\ \E fresh \in Uncached(peer.learner, peer.limit) :
       peer' = [peer EXCEPT !.pc = "store", !.result = fresh]
  /\ UNCHANGED <<courses, progress, enrollments, cache, pc, rq, served, writes>>

PeerCacheSet ==
  /\ peer.pc = "store"
  /\ \E writable \in BOOLEAN :
       cache' = IF writable
                THEN [k \in DOMAIN cache \cup {peer.key} |->
                        IF k = peer.key THEN JsonRoundTrip(peer.result) ELSE cache[k]]
                ELSE cache
  /\ peer' = [peer EXCEPT !.pc = "done"]
  /\ UNCHANGED <<courses, progress, enrollments, pc, rq, served, writes>>

NextConcurrent ==
  \/ Next
  \/ PeerRemember
  \/ PeerCompute
  \/ PeerCacheSet

SpecConcurrent == Init /\ [][NextConcurrent]_vars

\* ------------------------------------------------------ other catalogs
\* Catalogs in which course 1 is as in the fixture and courses 2 and 3 differ
\* in category, level, tags, rating and in being published and deleted.
Catalogs ==
  {[c \in Courses |->
      IF c = 1 THEN Catalog[1]
      ELSE IF c = 2 THEN [Catalog[2] EXCEPT
                            !.category = v2.category, !.level = v2.level,
                            !.tags = v2.tags, !.rating = v2.rating,
                            !.isPublished = v2.isPublished,
                            !.isDeleted = v2.isDeleted]
      ELSE [Catalog[3] EXCEPT
              !.category = v3.category, !.level = v3.level,
              !.isPublished = v3.isPublished, !.isDeleted = v3.isDeleted]] :
     v2 \in [category : {1, 2}, level : {"beginner", "advanced"},
             tags : {{}, {"js"}, {"js", "py"}}, rating : {4, 5},
             isPublished : BOOLEAN, isDeleted : BOOLEAN],
     v3 \in [category : {1, 2}, level : {"beginner", "advanced"},
             isPublished : BOOLEAN, isDeleted : BOOLEAN]}

InitCatalog ==
  /\ courses \in Catalogs
  /\ progress = [cell \in Users \X CourseIds |->
                   IF cell \in SeedProgress THEN "done" ELSE "none"]
  /\ enrollments = [k \in EnrollKinds |-> 0]
  /\ cache = <<>>
  /\ pc = "idle"
  /\ rq = NoRequest
  /\ served = 0
  /\ writes = 0
  /\ peer = NoPeer

NextCatalog ==
  \/ \E c \in CourseIds, a \in {NumPart(k) : k \in Limits} \cup {Undefined} :
       MoreLikeThis(c, a)
  \/ Return

SpecCatalog == InitCatalog /\ [][NextCatalog]_vars

\* ------------------------------------------------ other progress records
\* A catalog of four courses (the fourth id names a course here) and, per
\* user, any set of completed courses, with course 1 possibly in progress.
WideCatalog ==
  [c \in CourseIds |-> IF c \in Courses THEN Catalog[c] ELSE Catalog[1]]

InitProgress ==
  /\ courses = WideCatalog
  /\ \E done \in [Users -> SUBSET CourseIds], started \in [Users -> BOOLEAN] :
       progress = [cell \in Users \X CourseIds |->
                     IF cell[2] \in done[cell[1]] THEN "done"
                     ELSE IF cell[2] = 1 /\ started[cell[1]] THEN "inprog"
                     ELSE "none"]
  /\ enrollments = [k \in EnrollKinds |-> 0]
  /\ cache = <<>>
  /\ pc = "idle"
  /\ rq = NoRequest
  /\ served = 0
  /\ writes = 0
  /\ peer = NoPeer

\* A request up to the end of findSimilarUsers.
NextSimilar ==
  \/ \E u \in UserIds, k \in Limits : Remember(u, NumPart(k))
  \/ LoadUser
  \/ FindSimilarUsers

SpecProgress == InitProgress /\ [][NextSimilar]_vars

\* A request up to the end of getCoursesFromSimilarUsers, over the progress
\* records of InitProgress.
NextCollab ==
  \/ NextSimilar
  \/ FindSimilarCourses
  \/ GetPopularCoursesByCategories
  \/ GetCoursesFromSimilarUsers

SpecCollab == InitProgress /\ [][NextCollab]_vars

\* ------------------------------------- other catalogs, for the recommenders
\* Any catalog of Catalogs, and learner 1 with no record of course 1, with
\* course 1 in progress or with course 1 completed.
InitContent ==
  /\ courses \in Catalogs
  /\ \E first \in {"none", "inprog", "done"} :
       progress = [cell \in Users \X CourseIds |->
                     IF cell \in SeedProgress THEN "done"
                     ELSE IF cell = <<1, 1>> THEN first ELSE "none"]
  /\ enrollments = [k \in EnrollKinds |-> 0]
  /\ cache = <<>>
  /\ pc = "idle"
  /\ rq = NoRequest
  /\ served = 0
  /\ writes = 0
  /\ peer = NoPeer

\* A request up to the end of getPopularCoursesByCategories.
NextContent ==
  \/ NextSimilar
  \/ FindSimilarCourses
  \/ GetPopularCoursesByCategories

SpecContent == InitContent /\ [][NextContent]_vars

\* ------------------------------------------------- other enrollments
\* Up to MaxEnrollments Enrollment documents of any course, recent or older
\* than 30 days, active or revoked.
InitTrending ==
  /\ courses = Catalog
  /\ progress = [cell \in Users \X CourseIds |->
                   IF cell \in SeedProgress THEN "done" ELSE "none"]
  /\ \E m \in 0..MaxEnrollments : enrollments \in BagsOfSize(EnrollKinds, m)
  /\ cache = <<>>
  /\ pc = "idle"
  /\ rq = NoRequest
  /\ served = 0
  /\ writes = 0
  /\ peer = NoPeer

\* enrollmentController.revokeEnrollment of one Enrollment document: isActive
\* becomes false (isRevoked, which the engine does not read, true) and the
\* course's totalEnrollments goes down by one.
RevokeEnrollment(kind) ==
  /\ pc = "idle"
  /\ writes < MaxWrites
  /\ enrollments[kind] > 0
  /\ LET revoked == [kind EXCEPT !.isActive = FALSE]
     IN enrollments' = [k \in EnrollKinds |->
                          enrollments[k] - (IF k = kind THEN 1 ELSE 0)
                                         + (IF k = revoked THEN 1 ELSE 0)]
  /\ courses' = [courses EXCEPT ![kind.course].totalEnrollments = @ - 1]
  /\ writes' = writes + 1
  /\ UNCHANGED <<progress, cache, pc, rq, served, peer>>

\* Revocations, then a request of a learner up to the list it is about to
\* return.
NextTrending ==
  \/ \E kind \in EnrollKinds : RevokeEnrollment(kind)
  \/ \E u \in Users, k \in Limits : Remember(u, NumPart(k))
  \/ LoadUser
  \/ FindSimilarUsers
  \/ FindSimilarCourses
  \/ GetPopularCoursesByCategories
  \/ GetCoursesFromSimilarUsers
  \/ GetTrendingCourses
  \/ Aggregate

SpecTrending == InitTrending /\ [][NextTrending]_vars

\* ================================================================ claims
CourseOf(row) == row._id[2]
Raised == rq.status = "error"
Answered == pc = "done" /\ rq.op = "personalized" /\ rq.status = "ok"
Computed == Answered /\ ~rq.fromCache
Owned(userId, c) ==
  <<userId, c>> \in DOMAIN progress /\ progress[<<userId, c>>] # "none"

\* C1: no course returned by getPersonalizedRecommendations is in the
\* learner's completed or in-progress set, whichever source proposed it.
ExclusionInvariant ==
  Answered => \A i \in DOMAIN rq.result : ~Owned(rq.learner, CourseOf(rq.result[i]))

\* C2: the list returned by getPersonalizedRecommendations has at most limit
\* elements, whatever the sizes of the candidate lists.
SizeBound == Answered => Len(rq.result) <= rq.limit

SizeBoundWitness ==
  Computed /\ Len(rq.aggregated) > rq.limit /\ Len(rq.result) = rq.limit

\* C3: every course id occurs at most once in the returned list, also when
\* several sources propose the same course.
NoDuplicateCourse ==
  Answered =>
    \A i, j \in DOMAIN rq.result :
      CourseOf(rq.result[i]) = CourseOf(rq.result[j]) => i = j

NoDuplicateCourseWitness ==
  Computed /\ \E i \in DOMAIN rq.result : rq.result[i].sources >= 2

\* C4: the returned list is ordered by its rounded score, non-increasing.
SortedByScore ==
  Answered =>
    \A i \in 1..(Len(rq.result) - 1) : rq.result[i].score >= rq.result[i + 1].score

SortedByScoreWitness ==
  Computed /\ Len(rq.result) >= 2 /\ rq.result[1].score > rq.result[2].score

\* C5: every returned score is a finite number >= 0, and the aggregator
\* never divides by a source count of 0.
ScoresFiniteNonNegative ==
  /\ pc \in {"store", "done"} =>
       \A i \in DOMAIN rq.aggregated :
         /\ rq.aggregated[i].sources >= 1
         /\ Finite(rq.aggregated[i].score)
         /\ rq.aggregated[i].score >= 0
  /\ Answered =>
       \A i \in DOMAIN rq.result :
         Finite(rq.result[i].score) /\ rq.result[i].score >= 0

ScoresFiniteNonNegativeWitness ==
  Computed /\ Len(rq.result) >= 1 /\ rq.result[1].score > 0

\* C6: the final score of an aggregated course is the sum of its weighted
\* per-source scores (0.4 collaborative, 0.3 content, 0.2 interest-popularity,
\* 0.1 trending) divided by the number of sources that proposed it; raw 0.5
\* from collaborative and raw 0.8 from trending give 0.14 with 2 sources.
InList(list, c) == \E i \in DOMAIN list : CourseOf(list[i]) = c
RawIn(list, c) ==
  IF InList(list, c)
  THEN list[CHOOSE i \in DOMAIN list : CourseOf(list[i]) = c].score ELSE 0
Proposers(r, c) ==
  {src \in {"collab", "content", "popular", "trending"} :
     \/ src = "collab" /\ InList(r.collab, c)
     \/ src = "content" /\ InList(r.similarCourses, c)
     \/ src = "popular" /\ InList(r.popular, c)
     \/ src = "trending" /\ InList(r.trending, c)}
WeightedSumTimes10(r, c) ==
  4 * RawIn(r.collab, c) + 3 * RawIn(r.similarCourses, c)
    + 2 * RawIn(r.popular, c) + RawIn(r.trending, c)

MeanOverContributingSources ==
  /\ pc = "store" /\ UserExists(rq.learner) =>
       /\ {CourseOf(rq.aggregated[i]) : i \in DOMAIN rq.aggregated}
            = {c \in Courses : Proposers(rq, c) # {}}
       /\ \A i \in DOMAIN rq.aggregated :
            LET row == rq.aggregated[i]
            IN /\ row.sources = Cardinality(Proposers(rq, CourseOf(row)))
               /\ row.score * row.sources * 10 = WeightedSumTimes10(rq, CourseOf(row))
  /\ aggregateRecommendations(
       Weighted(<<[_id |-> OID(1), score |-> UNIT \div 2]>>, 4)
         \o Weighted(<<[_id |-> OID(1), score |-> (8 * UNIT) \div 10]>>, 1))
       = <<[_id |-> OID(1), score |-> (14 * UNIT) \div 100, sources |-> 2]>>

MeanOverContributingSourcesWitness ==
  /\ pc = "store"
  /\ \E i \in DOMAIN rq.aggregated :
       /\ rq.aggregated[i].sources = 2
       /\ InList(rq.collab, CourseOf(rq.aggregated[i]))
       /\ InList(rq.similarCourses, CourseOf(rq.aggregated[i]))

\* C7: when exactly one source returns candidates, the result is that
\* source's candidates, each with score = raw score times the source's weight,
\* minus the learner's completed and in-progress courses, in the source's
\* order and capped at limit.
SourceLists(r) ==
  <<[list |-> r.collab, tenths |-> 4], [list |-> r.similarCourses, tenths |-> 3],
    [list |-> r.popular, tenths |-> 2], [list |-> r.trending, tenths |-> 1]>>

OnlySource(r, k) ==
  /\ Len(SourceLists(r)[k].list) > 0
  /\ \A j \in 1..4 : j # k => Len(SourceLists(r)[j].list) = 0

ExpectedFromOne(r, k) ==
  LET kept == SelectSeq(SourceLists(r)[k].list,
                        LAMBDA row : ~Owned(r.learner, CourseOf(row)))
      top == Take(kept, r.limit)
  IN [i \in DOMAIN top |->
        [course |-> CourseOf(top[i]),
         score |-> Round2((top[i].score * SourceLists(r)[k].tenths) \div 10)]]

SingleSourceResult ==
  Computed =>
    \A k \in 1..4 :
      OnlySource(rq, k) =>
        [i \in DOMAIN rq.result |->
           [course |-> CourseOf(rq.result[i]), score |-> rq.result[i].score]]
          = ExpectedFromOne(rq, k)

\* C8: over an unchanged snapshot, a call with the same learner id and limit
\* as an earlier call returns the same courses in the same order, also when
\* it is recomputed: the list about to be returned equals the list the cache
\* still holds from the earlier call.
SameAnswerOnRecompute ==
  (pc = "store" /\ rq.key \in DOMAIN cache) =>
    cache[rq.key] = JsonRoundTrip(rq.result)

\* C9: the failure of the store call of one recommender never makes the
\* request fail: the request completes with the other sources' aggregate.
RecommenderSteps == {"simUsers", "simCourses", "popular", "collab", "trending"}

SourceFailureTolerated ==
  (pc = "done" /\ rq.op = "personalized" /\ rq.failedAt \in RecommenderSteps)
    => rq.status = "ok"

InvalidLimit(arg) ==
  \/ arg.kind = "number" /\ arg.num <= 0
  \/ arg.kind = "string" /\ ~IsNumeral(arg.str)
  \/ arg.kind = "null"

StoreFailed == rq.failedAt \in {"load", "simUsers", "simCourses", "popular",
                                "collab", "trending"}

InvalidLimitClamped ==
  (pc = "done" /\ rq.op = "personalized" /\ InvalidLimit(rq.limitArg)
     /\ ~StoreFailed) =>
    /\ rq.status = "ok"
    /\ Len(rq.result) <= DefaultLimit
    /\ JsonRoundTrip(rq.result) \in OnTheWire(Uncached(rq.learner, DefaultLimit))

\* C12: for an existing learner, whatever the stores hold (a progress record
\* of a course that is not in the catalog included), a call of
\* getPersonalizedRecommendations with a valid limit in which no store call
\* fails completes with a list and raises nothing.
NeverRaises ==
  (pc = "done" /\ rq.op = "personalized" /\ UserExists(rq.learner)
     /\ ~InvalidLimit(rq.limitArg) /\ ~StoreFailed) =>
    rq.status = "ok"

\* C13: the list returned by getPersonalizedRecommendations(learner, limit)
\* is one that the computation without cache gives from the stores as they
\* are at the time of the call, whatever enrolments, completions, deletions
\* and requests came before.
AnswerFromCurrentStores ==
  Answered =>
    JsonRoundTrip(rq.result) \in OnTheWire(Uncached(rq.learner, rq.limit))

\* C14: two concurrent calls of getPersonalizedRecommendations with the same
\* learner and limit over an unchanged snapshot, however their cache reads,
\* computations and cache writes interleave, return one and the same list,
\* a list of the uncached computation, and the cache entry of the key, once
\* there is one, holds that list.
BothAnswered == Answered /\ peer.pc = "done"

ConcurrentSameAnswer ==
  BothAnswered =>
    /\ JsonRoundTrip(rq.result) \in OnTheWire(Uncached(rq.learner, rq.limit))
    /\ JsonRoundTrip(peer.result) = JsonRoundTrip(rq.result)
    /\ rq.key \in DOMAIN cache => cache[rq.key] = JsonRoundTrip(rq.result)

\* C15: the cache key of a recommendation request is a function of (learner
\* id, limit) that is injective: the key of the request in flight is the key
\* of a call (u, a) exactly when u is its learner and a is its limit, an
\* omitted limit being the limit 10.
CallLimits == {NumPart(k) : k \in Limits} \cup OtherLimits

KeyInjective ==
  (pc # "idle" /\ rq.op = "personalized") =>
    \A u \in UserIds, a \in CallLimits :
      (RecommendationKey(u, DefaultParam(a, DefaultLimit)) = rq.key)
        <=> (u = rq.learner /\ DefaultParam(a, DefaultLimit) = rq.limitArg)

\* C16: no step of getPersonalizedRecommendations or getMoreLikeThis changes
\* the course, progress or enrollment store, and the only cache entry a step
\* changes is the one of the key of the request's own learner id and limit.
\* (The user, profile and category stores are fixed in this model: no code
\* of the engine writes them.)
ChangedKeys ==
  {k \in DOMAIN cache \cup DOMAIN cache' :
     \/ k \notin DOMAIN cache
     \/ k \notin DOMAIN cache'
     \/ cache'[k] # cache[k]}

RequestsOnlyWriteOwnCacheEntry ==
  [][/\ courses' = courses
     /\ progress' = progress
     /\ enrollments' = enrollments
     /\ \A k \in ChangedKeys :
          /\ rq.op = "personalized"
          /\ k = RecommendationKey(rq.learner, rq.limitArg)]_vars

RequestsOnlyWriteOwnCacheEntryWitness ==
  /\ Computed
  /\ rq.key \in DOMAIN cache
  /\ cache[rq.key] = JsonRoundTrip(rq.result)
  /\ Len(rq.result) > 0
  /\ \E k \in DOMAIN cache : k # rq.key

\* C17: aggregateRecommendations starts only when every recommender the
\* request invokes has delivered its list, it aggregates exactly those lists,
\* and no list changes once it has started.
Delivered(r) ==
  /\ "getTrendingCourses" \in r.queries
  /\ r.completed # {} =>
       {"findSimilarUsers", "findSimilarCourses"} \subseteq r.queries
  /\ r.interests # {} => "getPopularCoursesByCategories" \in r.queries
  /\ Len(r.similarUsers) > 0 => "getCoursesFromSimilarUsers" \in r.queries

CandidateLists(r) ==
  <<r.similarUsers, r.similarCourses, r.popular, r.collab, r.trending>>

BarrierBeforeAggregation ==
  [][/\ pc' = "aggregate" => Delivered(rq')
     /\ (pc = "aggregate" /\ pc' = "store") =>
          rq'.recommendations = Combined(rq)
     /\ (pc \in {"aggregate", "store"} /\ pc' \in {"store", "done"}) =>
          CandidateLists(rq') = CandidateLists(rq)]_vars

BarrierBeforeAggregationWitness ==
  /\ pc = "aggregate"
  /\ Len(rq.collab) > 0
  /\ Len(rq.similarCourses) > 0
  /\ Len(rq.popular) > 0
  /\ {"findSimilarUsers", "findSimilarCourses", "getPopularCoursesByCategories",
      "getCoursesFromSimilarUsers", "getTrendingCourses"} \subseteq rq.queries

\* C18: for a reference course of the catalog, getMoreLikeThis(courseId,
\* limit) returns at most limit courses, none the reference, each published,
\* not deleted and of the reference's category, each scored 2 for an equal
\* level + the number of shared tags + 0.5 times its rating, in non-increasing
\* order of that score; nothing of it depends on a learner's data.
MoreLikeThisAnswered ==
  pc = "done" /\ rq.op = "moreLikeThis" /\ rq.learner \in DOMAIN courses

MoreLikeThisContract ==
  MoreLikeThisAnswered =>
    LET ref == courses[rq.learner]
    IN /\ rq.status = "ok"
       /\ Len(rq.result) <= rq.limit
       /\ \A i \in DOMAIN rq.result :
            LET c == CourseOf(rq.result[i])
            IN /\ c # rq.learner
               /\ courses[c].isPublished
               /\ ~courses[c].isDeleted
               /\ courses[c].category = ref.category
               /\ 2 * rq.result[i].score =
                    (IF courses[c].level = ref.level THEN 4 * UNIT ELSE 0)
                    + 2 * Cardinality(courses[c].tags \cap ref.tags) * UNIT
                    + courses[c].rating * UNIT
       /\ \A i \in 1..(Len(rq.result) - 1) :
            rq.result[i].score >= rq.result[i + 1].score

MoreLikeThisContractWitness ==
  /\ MoreLikeThisAnswered
  /\ Len(rq.result) = 2
  /\ rq.result[1].score > rq.result[2].score
  /\ courses[CourseOf(rq.result[1])].level = courses[rq.learner].level
  /\ courses[CourseOf(rq.result[2])].level # courses[rq.learner].level

\* C19: every course returned by getPersonalizedRecommendations is published
\* and not deleted in the catalog as it is when the call answers, also a
\* course deleted after an earlier request.
ReturnedCoursesVisible ==
  Answered => \A i \in DOMAIN rq.result : Visible(CourseOf(rq.result[i]))

\* C20: for a learner with a non-empty set C of completed courses,
\* findSimilarUsers returns the other learners whose number n of completed
\* courses in C is at least min(3, |C|), each once and with similarity n / |C|,
\* in non-increasing order of similarity, at most 10 of them; a learner who
\* completed the same 3 courses as the requester is returned with
\* similarity 1.
CompletedBy(u) == {c \in CourseIds : progress[<<u, c>>] = "done"}
Shared(u, v) == Cardinality(CompletedBy(u) \cap CompletedBy(v))

SimilarUsersContract ==
  (pc = "simCourses" /\ CompletedBy(rq.learner) # {}) =>
    LET A == rq.learner
        size == Cardinality(CompletedBy(A))
        found == rq.similarUsers
    IN /\ Len(found) <= 10
       /\ \A i \in DOMAIN found :
            /\ found[i].userId \in Users \ {A}
            /\ Shared(A, found[i].userId) >= Min(3, size)
            /\ found[i].score * size = Shared(A, found[i].userId) * UNIT
       /\ \A i, j \in DOMAIN found : found[i].userId = found[j].userId => i = j
       /\ \A i \in 1..(Len(found) - 1) : found[i].score >= found[i + 1].score
       /\ \A B \in Users \ {A} :
            Shared(A, B) >= Min(3, size) =>
              \E i \in DOMAIN found : found[i].userId = B
       /\ \A B \in Users \ {A} :
            (size = 3 /\ CompletedBy(B) = CompletedBy(A)) =>
              \E i \in DOMAIN found : found[i].userId = B /\ found[i].score = UNIT

SimilarUsersContractWitness ==
  /\ pc = "simCourses"
  /\ Cardinality(CompletedBy(rq.learner)) = 4
  /\ Len(rq.similarUsers) = 2
  /\ rq.similarUsers[1].score = UNIT
  /\ rq.similarUsers[2].score * 4 = 3 * UNIT

\* The example of C20: two learners who completed exactly the same 3 courses.
SameThreeCoursesWitness ==
  /\ pc = "simCourses"
  /\ Cardinality(CompletedBy(rq.learner)) = 3
  /\ \E i \in DOMAIN rq.similarUsers :
       /\ CompletedBy(rq.similarUsers[i].userId) = CompletedBy(rq.learner)
       /\ rq.similarUsers[i].score = UNIT

\* C21: a recommender whose input is empty returns an empty list and raises
\* nothing: findSimilarUsers without completed courses,
\* getCoursesFromSimilarUsers without similar learners,
\* getPopularCoursesByCategories without interests, getTrendingCourses without
\* an active enrollment of the last 30 days (its store call not failing); and
\* when all four lists are empty getPersonalizedRecommendations returns the
\* empty list.
NoRecentActiveEnrollment == \A c \in Courses : RecentEnrollments(c) = 0

AllListsEmpty(r) ==
  Len(r.collab) = 0 /\ Len(r.similarCourses) = 0 /\ Len(r.popular) = 0
    /\ Len(r.trending) = 0

EmptyInputEmptyList ==
  [][/\ (pc = "simUsers" /\ rq.completed = {}) =>
          (pc' = "simCourses" /\ rq'.similarUsers = <<>>)
     /\ (pc = "popular" /\ rq.interests = {}) =>
          (pc' = "collab" /\ rq'.popular = <<>>)
     /\ (pc = "collab" /\ Len(rq.similarUsers) = 0) =>
          (pc' = "trending" /\ rq'.collab = <<>>)
     /\ getCoursesFromSimilarUsers(<<>>, rq.completed, rq.inProgress) = {<<>>}
     /\ (pc = "trending" /\ NoRecentActiveEnrollment
           /\ rq'.failedAt # "trending") =>
          (pc' = "aggregate" /\ rq'.trending = <<>>)
     /\ (pc = "aggregate" /\ AllListsEmpty(rq)) =>
          (pc' = "store" /\ rq'.result = <<>> /\ rq'.status # "error")
     /\ (pc = "store" /\ rq.result = <<>>) =>
          (rq'.status = "ok" /\ rq'.result = <<>>)]_vars

EmptyInputEmptyListWitness ==
  /\ Computed
  /\ UserExists(rq.learner)
  /\ rq.completed = {} /\ rq.interests = {}
  /\ Len(rq.similarUsers) = 0
  /\ NoRecentActiveEnrollment
  /\ "getTrendingCourses" \in rq.queries
  /\ AllListsEmpty(rq)
  /\ rq.result = <<>>

\* C22: every course getCoursesFromSimilarUsers proposes has the raw score
\* (k / n) * (k / 10), n being the number of similar learners passed in and k
\* the number of them who completed the course; the list is in non-increasing
\* order of that score and has at most 20 rows.
CollabScoreContract ==
  (pc = "trending" /\ Len(rq.similarUsers) > 0) =>
    LET peers == {rq.similarUsers[i].userId : i \in DOMAIN rq.similarUsers}
        n == Len(rq.similarUsers)
    IN /\ Len(rq.collab) <= 20
       /\ \A i \in DOMAIN rq.collab :
            LET c == CourseOf(rq.collab[i])
                k == Cardinality({s \in peers : c \in CompletedBy(s)})
            IN /\ k >= 1
               /\ rq.collab[i].score * n * 10 = k * k * UNIT
       /\ \A i \in 1..(Len(rq.collab) - 1) :
            rq.collab[i].score >= rq.collab[i + 1].score

CollabScoreContractWitness ==
  /\ pc = "trending"
  /\ Len(rq.similarUsers) = 2
  /\ Len(rq.collab) >= 2
  /\ rq.collab[1].score * 5 = UNIT
  /\ rq.collab[2].score * 20 = UNIT

\* C23: the raw score of a course findSimilarCourses evaluates is 3 if its
\* category is one of the source courses' categories, plus 1 if its level is
\* one of their levels, plus 0.5 per tag it shares with them, plus 0.1 times
\* its rating; same category and level, no shared tag and rating 4 give 4.4.
\* (The source courses are the ones the code reads the attributes from.)
SourceCourses(r) == {c \in DOMAIN courses : OID(c) \in r.completed}
SourceCategories(r) == {courses[c].category : c \in SourceCourses(r)}
SourceLevels(r) == {courses[c].level : c \in SourceCourses(r)}
SourceTags(r) == UNION {courses[c].tags : c \in SourceCourses(r)}

ClaimedContentScoreTimes10(r, c) ==
  (IF courses[c].category \in SourceCategories(r) THEN 30 * UNIT ELSE 0)
  + (IF courses[c].level \in SourceLevels(r) THEN 10 * UNIT ELSE 0)
  + 5 * Cardinality(courses[c].tags \cap SourceTags(r)) * UNIT
  + courses[c].rating * UNIT

ContentScoreFormula ==
  (pc = "popular" /\ rq.status # "error") =>
    \A i \in DOMAIN rq.similarCourses :
      10 * rq.similarCourses[i].score
        = ClaimedContentScoreTimes10(rq, CourseOf(rq.similarCourses[i]))

ContentScoreFormulaWitness ==
  /\ pc = "popular"
  /\ \E i \in DOMAIN rq.similarCourses :
       LET c == CourseOf(rq.similarCourses[i])
       IN /\ courses[c].category \in SourceCategories(rq)
          /\ courses[c].level \in SourceLevels(rq)
          /\ courses[c].tags \cap SourceTags(rq) = {}
          /\ courses[c].rating = 4
          /\ 10 * rq.similarCourses[i].score = 44 * UNIT
  /\ \E i \in DOMAIN rq.similarCourses :
       courses[CourseOf(rq.similarCourses[i])].category \notin SourceCategories(rq)

\* C24: before the cut to 20, a published, not deleted course that is neither
\* completed nor in progress is a candidate of findSimilarCourses exactly when
\* its content score is greater than 0; so a course with a rating above 0
\* that shares no category, level or tag with the source courses is one.
Eligible(r, c) ==
  /\ courses[c].isPublished
  /\ ~courses[c].isDeleted
  /\ OID(c) \notin r.completed \cup r.inProgress

CandidateIffPositiveScore ==
  (pc = "popular" /\ rq.status # "error" /\ rq.completed # {}) =>
    \A c \in DOMAIN courses :
      Eligible(rq, c) =>
        (InList(rq.similarCourses, c) <=> ClaimedContentScoreTimes10(rq, c) > 0)

\* C25: the courses findSimilarCourses takes the source categories, levels
\* and tags from are the learner's completed and in-progress courses: an
\* eligible course that shares its category, its level or a tag with one of
\* them is a candidate, also for a learner who has completed nothing.
StartedCourses(r) ==
  {c \in DOMAIN courses : OID(c) \in r.completed \cup r.inProgress}

SharesAttribute(c, d) ==
  \/ courses[c].category = courses[d].category
  \/ courses[c].level = courses[d].level
  \/ courses[c].tags \cap courses[d].tags # {}

SourcesIncludeInProgress ==
  (pc = "popular" /\ rq.status # "error") =>
    \A c \in DOMAIN courses :
      (Eligible(rq, c) /\ \E d \in StartedCourses(rq) : SharesAttribute(c, d))
        => InList(rq.similarCourses, c)

\* C26: getPopularCoursesByCategories proposes only published, not deleted
\* courses whose category is one the learner's interests name, each with the
\* raw score (0.5 * totalEnrollments + 10 * rating + 0.1 * totalReviews) / 100,
\* in non-increasing order of it and at most limit of them; a learner without
\* interests gets none.
InterestCategoryIds(r) == {CategoryId(name) : name \in r.interests \cap CategoryNames}

PopularContract ==
  (pc = "collab" /\ rq.status # "error") =>
    /\ Len(rq.popular) <= rq.limit
    /\ \A i \in DOMAIN rq.popular :
         LET c == CourseOf(rq.popular[i])
         IN /\ courses[c].isPublished
            /\ ~courses[c].isDeleted
            /\ courses[c].category \in InterestCategoryIds(rq)
            /\ 1000 * rq.popular[i].score
                 = (5 * courses[c].totalEnrollments + 100 * courses[c].rating
                      + courses[c].totalReviews) * UNIT
    /\ \A i \in 1..(Len(rq.popular) - 1) :
         rq.popular[i].score >= rq.popular[i + 1].score
    /\ rq.interests = {} => rq.popular = <<>>

PopularContractWitness ==
  /\ pc = "collab"
  /\ Len(rq.popular) = 2
  /\ rq.limit = 2
  /\ rq.popular[1].score > rq.popular[2].score
  /\ \E c \in DOMAIN courses :
       courses[c].isDeleted /\ courses[c].category \in InterestCategoryIds(rq)

\* C27: getTrendingCourses counts per course the enrollments that are active
\* and at most 30 days old; an older or a revoked enrollment counts nowhere,
\* and a course with a count of 0 is not proposed. A proposed course has the
\* raw score (2 * count + 5 * rating) / 100; the list is in non-increasing
\* order of it and has at most limit rows.
ActiveRecentCount(c) ==
  enrollments[[course |-> c, recent |-> TRUE, isActive |-> TRUE]]

TrendingContract ==
  (pc = "aggregate" /\ rq.status # "error") =>
    /\ Len(rq.trending) <= rq.limit
    /\ \A i \in DOMAIN rq.trending :
         LET c == CourseOf(rq.trending[i])
         IN /\ ActiveRecentCount(c) >= 1
            /\ 100 * rq.trending[i].score
                 = (2 * ActiveRecentCount(c) + 5 * courses[c].rating) * UNIT
    /\ \A i \in 1..(Len(rq.trending) - 1) :
         rq.trending[i].score >= rq.trending[i + 1].score

TrendingContractWitness ==
  /\ pc = "aggregate"
  /\ writes > 0
  /\ Len(rq.trending) = 2
  /\ rq.trending[1].score > rq.trending[2].score
  /\ \E c \in Courses :
       /\ enrollments[[course |-> c, recent |-> TRUE, isActive |-> FALSE]] > 0
       /\ ~InList(rq.trending, c)

\* C28: the list getPersonalizedRecommendations returns is made of the limit
\* highest-scoring aggregated candidates outside the learner's completed and
\* in-progress courses: every returned row is such a candidate with its
\* aggregated score rounded to 2 decimals, as many of them are returned as
\* limit allows, and none that is left out has a strictly higher aggregated
\* score than one that is returned.
NonExcluded(r) ==
  {i \in DOMAIN r.aggregated : ~Owned(r.learner, CourseOf(r.aggregated[i]))}

AggregatedScore(r, c) ==
  r.aggregated[CHOOSE i \in DOMAIN r.aggregated : CourseOf(r.aggregated[i]) = c].score

TopLimitOfNonExcluded ==
  (pc = "store" /\ UserExists(rq.learner)) =>
    /\ \A j \in DOMAIN rq.result :
         \E i \in NonExcluded(rq) :
           /\ CourseOf(rq.aggregated[i]) = CourseOf(rq.result[j])
           /\ rq.result[j].score = Round2(rq.aggregated[i].score)
    /\ Len(rq.result) = Min(rq.limit, Cardinality(NonExcluded(rq)))
    /\ \A i \in NonExcluded(rq) :
         ~InList(rq.result, CourseOf(rq.aggregated[i])) =>
           \A j \in DOMAIN rq.result :
             rq.aggregated[i].score
               <= AggregatedScore(rq, CourseOf(rq.result[j]))

NoRepeatedCourse(list) ==
  \A i, j \in DOMAIN list : CourseOf(list[i]) = CourseOf(list[j]) => i = j

SourceCountIsDistinctSources ==
  (pc = "store" /\ UserExists(rq.learner)) =>
    /\ NoRepeatedCourse(rq.collab)
    /\ NoRepeatedCourse(rq.similarCourses)
    /\ NoRepeatedCourse(rq.popular)
    /\ NoRepeatedCourse(rq.trending)
    /\ \A i \in DOMAIN rq.aggregated :
         /\ rq.aggregated[i].sources \in 1..4
         /\ rq.aggregated[i].sources
              = Cardinality(Proposers(rq, CourseOf(rq.aggregated[i])))

SourceCountIsDistinctSourcesWitness ==
  /\ pc = "store"
  /\ \E i \in DOMAIN rq.aggregated :
       /\ ActiveRecentCount(CourseOf(rq.aggregated[i])) >= 2
       /\ rq.aggregated[i].sources = 2
       /\ InList(rq.trending, CourseOf(rq.aggregated[i]))
====
